---- MODULE Spec2Model ----
(***************************************************************************)
(* RecursiveSharedMutex (src/recursive_shared_mutex.{h,cpp}): a recursive  *)
(* shared/exclusive lock built from a bookkeeping std::mutex, an atomic    *)
(* writer thread id and yield-based retry loops.                           *)
(*                                                                         *)
(* Each thread is a small program counter machine.  A step is either the   *)
(* acquisition of the bookkeeping mutex (lock_guard construction), the     *)
(* body of one critical section together with the lock_guard's release,    *)
(* one atomic compare-and-swap on the writer slot, or one yield.  The      *)
(* yield that follows a failed check made under the mutex belongs to the   *)
(* step that leaves that critical section.                                 *)
(***************************************************************************)
EXTENDS Integers, FiniteSets, TLC

\* Number of threads using the one lock instance.
NumThreads == 3
\* Deepest recursion level a caller takes before it starts releasing.
MaxDepth == 2

Threads == 1..NumThreads
\* std::thread::id(): the value that names no thread.
NoThread == 0

VARIABLES
    pc,                \* pc[t]: where thread t is inside the five operations
    mtx,               \* _mtx: the thread holding it, or NoThread
    waitingWriters,    \* _waitingWriters
    writerThreadId,    \* _writerThreadId
    writersOwnership,  \* _writersOwnership
    readersOwnership,  \* _readersOwnership: thread id -> level, entries only
    build,             \* "any": no assert() has failed so far, so a build that keeps
                       \* assert() and one that compiles it out (NDEBUG) have run alike;
                       \* "ndebug": a failed assert() was passed, so this build has none
    xheld,             \* xheld[t]: exclusive levels t's calls acquired minus those its calls released
    sheld,             \* sheld[t]: shared levels t's calls acquired minus those its calls released
    owes,              \* owes[t]: writers that had announced when t's running lock_shared() began
                       \*          and have not since acquired and fully released
    ownerShared        \* levels of the writer depth that the owner's lock_shared() calls took
                       \* and its unlock_shared() calls have not given back

vars == <<pc, mtx, waitingWriters, writerThreadId, writersOwnership,
          readersOwnership, build, xheld, sheld, owes, ownerShared>>

lockState == <<waitingWriters, writerThreadId, writersOwnership, readersOwnership>>

\* Positions inside lock() after the announcement (_waitingWriters++).
AnnouncedPcs == {"lock_cas", "lock_yield", "lock_drain", "lock_drain_cs"}
LockPcs == {"lock_cs"} \cup AnnouncedPcs
LockSharedPcs == {"ls_cs", "ls_loop", "ls_loop_cs"}
\* Positions at which the thread is between lock_guard construction and scope exit.
CsPcs == {"lock_cs", "lock_drain_cs", "try_cs", "ls_cs", "ls_loop_cs", "unlock_cs", "us_cs"}
PcValues == {"idle", "try_cs", "unlock_cs", "us_cs", "aborted"} \cup LockPcs \cup LockSharedPcs

\* A failed assert() has terminated the process.
Aborted == \E t \in Threads : pc[t] = "aborted"

\* Thread t of a process that is still running stands at position p.
At(t, p) == ~Aborted /\ pc[t] = p

\* _readersOwnership.count(threadId)
ReaderCount(t) == IF t \in DOMAIN readersOwnership THEN 1 ELSE 0
\* _readersOwnership.size()
ReaderSize == Cardinality(DOMAIN readersOwnership)

\* _readersOwnership.insert(std::make_pair(t, 1)): no effect on an existing key.
ReaderInsert(t) ==
    [x \in DOMAIN readersOwnership \cup {t} |->
        IF x \in DOMAIN readersOwnership THEN readersOwnership[x] ELSE 1]
\* _readersOwnership.erase(t)
ReaderErase(t) ==
    [x \in DOMAIN readersOwnership \ {t} |-> readersOwnership[x]]

TypeOK ==
    /\ pc \in [Threads -> PcValues]
    /\ mtx \in Threads \cup {NoThread}
    /\ waitingWriters \in 0..NumThreads
    /\ writerThreadId \in Threads \cup {NoThread}
    /\ writersOwnership \in 0..MaxDepth
    /\ DOMAIN readersOwnership \subseteq Threads
    /\ \A t \in DOMAIN readersOwnership : readersOwnership[t] \in 0..MaxDepth
    /\ build \in {"any", "ndebug"}
    /\ ownerShared \in 0..MaxDepth
    /\ xheld \in [Threads -> 0..MaxDepth]
    /\ sheld \in [Threads -> 0..MaxDepth]
    /\ owes \in [Threads -> SUBSET Threads]

\* RecursiveSharedMutex::RecursiveSharedMutex()
Init ==
    /\ pc = [t \in Threads |-> "idle"]
    /\ mtx = NoThread
    /\ waitingWriters = 0
    /\ writerThreadId = NoThread
    /\ writersOwnership = 1
    /\ readersOwnership = [x \in {} |-> 0]
    /\ build = "any"
    /\ xheld = [t \in Threads |-> 0]
    /\ sheld = [t \in Threads |-> 0]
    /\ owes = [t \in Threads |-> {}]
    /\ ownerShared = 0

\* The caller's record after a call of t that took one exclusive level.
TookExclusive(t) == xheld' = [xheld EXCEPT ![t] = @ + 1]
\* The caller's record after a call of t that gave one exclusive level back; a
\* writer that has given back all its levels is no longer owed by waiting readers.
GaveExclusive(t) ==
    /\ xheld' = [xheld EXCEPT ![t] = @ - 1]
    /\ owes' = IF xheld[t] = 1 THEN [r \in Threads |-> owes[r] \ {t}] ELSE owes

-----------------------------------------------------------------------------
(* lock() *)

\* l.45-48: the call, up to holding _mtx.  A caller recurses at most MaxDepth deep.
lock_enter(t) ==
    /\ At(t, "idle")
    /\ mtx = NoThread
    /\ writerThreadId = t => writersOwnership < MaxDepth
    /\ pc' = [pc EXCEPT ![t] = "lock_cs"]
    /\ mtx' = t
    /\ UNCHANGED <<lockState, build, xheld, sheld, owes, ownerShared>>

\* lock() with the increment of l.50 left out.
lock_reenter_no_count(t) ==
    /\ At(t, "lock_cs")
    /\ writerThreadId = t
    /\ pc' = [pc EXCEPT ![t] = "idle"]
    /\ mtx' = NoThread
    /\ TookExclusive(t)
    /\ UNCHANGED <<lockState, build, sheld, owes, ownerShared>>

\* l.49-52: the caller already owns exclusively.
lock_reenter(t) ==
    /\ At(t, "lock_cs")
    /\ writerThreadId = t
    /\ writersOwnership' = writersOwnership + 1
    /\ pc' = [pc EXCEPT ![t] = "idle"]
    /\ mtx' = NoThread
    /\ TookExclusive(t)
    /\ UNCHANGED <<waitingWriters, writerThreadId, readersOwnership, build, sheld, owes, ownerShared>>

\* l.53-55: the assert holds, or it fails in a build that has compiled it
\* out; announce the writer.
lock_announce(t) ==
    /\ At(t, "lock_cs")
    /\ writerThreadId # t
    /\ build' = IF ReaderCount(t) = 0 THEN build ELSE "ndebug"
    /\ waitingWriters' = waitingWriters + 1
    /\ pc' = [pc EXCEPT ![t] = "lock_cas"]
    /\ mtx' = NoThread
    /\ UNCHANGED <<writerThreadId, writersOwnership, readersOwnership, xheld, sheld, owes, ownerShared>>

\* l.53: the assert fails in a build that keeps it: the process is terminated.
lock_assert_fail(t) ==
    /\ At(t, "lock_cs")
    /\ writerThreadId # t
    /\ ReaderCount(t) # 0
    /\ build = "any"
    /\ pc' = [pc EXCEPT ![t] = "aborted"]
    /\ UNCHANGED <<mtx, lockState, build, xheld, sheld, owes, ownerShared>>

\* l.61 as a plain store: the slot is taken whatever it holds.
lock_cas_store(t) ==
    /\ At(t, "lock_cas")
    /\ writerThreadId' = t
    /\ pc' = [pc EXCEPT ![t] = "lock_drain"]
    /\ UNCHANGED <<mtx, waitingWriters, writersOwnership, readersOwnership, build, xheld, sheld, owes, ownerShared>>

\* l.60-61: compare_exchange_weak(empty, threadId) succeeds.
lock_cas_ok(t) ==
    /\ At(t, "lock_cas")
    /\ writerThreadId = NoThread
    /\ writerThreadId' = t
    /\ pc' = [pc EXCEPT ![t] = "lock_drain"]
    /\ UNCHANGED <<mtx, waitingWriters, writersOwnership, readersOwnership, build, xheld, sheld, owes, ownerShared>>

\* l.61: compare_exchange_weak fails: the slot is taken, or the weak form fails spuriously.
lock_cas_fail(t) ==
    /\ At(t, "lock_cas")
    /\ pc' = [pc EXCEPT ![t] = "lock_yield"]
    /\ UNCHANGED <<mtx, lockState, build, xheld, sheld, owes, ownerShared>>

\* l.75: yield, then the next round of the outer loop.
lock_yield(t) ==
    /\ At(t, "lock_yield")
    /\ pc' = [pc EXCEPT ![t] = "lock_cas"]
    /\ UNCHANGED <<mtx, lockState, build, xheld, sheld, owes, ownerShared>>

\* l.62-65: the slot is claimed; take _mtx for the drain check.
lock_drain_enter(t) ==
    /\ At(t, "lock_drain")
    /\ mtx = NoThread
    /\ pc' = [pc EXCEPT ![t] = "lock_drain_cs"]
    /\ mtx' = t
    /\ UNCHANGED <<lockState, build, xheld, sheld, owes, ownerShared>>

\* A drain check that does not count the claiming thread's own reader entry.
Drained_but_self == DOMAIN readersOwnership \subseteq {writerThreadId}

\* The drain check of l.66.
Drained == ReaderSize = 0

\* lock() returning without the decrement of l.67.
lock_drain_done_keeps_count(t) ==
    /\ At(t, "lock_drain_cs")
    /\ Drained
    /\ pc' = [pc EXCEPT ![t] = "idle"]
    /\ mtx' = NoThread
    /\ TookExclusive(t)
    /\ UNCHANGED <<lockState, build, sheld, owes, ownerShared>>

\* l.66-69: no readers are left; the waiting writer is gone and lock() returns.
lock_drain_done(t) ==
    /\ At(t, "lock_drain_cs")
    /\ Drained
    /\ waitingWriters' = waitingWriters - 1
    /\ pc' = [pc EXCEPT ![t] = "idle"]
    /\ mtx' = NoThread
    /\ TookExclusive(t)
    /\ UNCHANGED <<writerThreadId, writersOwnership, readersOwnership, build, sheld, owes, ownerShared>>

\* l.66, 70-72: readers exist; leave the critical section and yield; the next
\* round of the inner loop follows.
lock_drain_wait(t) ==
    /\ At(t, "lock_drain_cs")
    /\ ~Drained
    /\ pc' = [pc EXCEPT ![t] = "lock_drain"]
    /\ mtx' = NoThread
    /\ UNCHANGED <<lockState, build, xheld, sheld, owes, ownerShared>>

-----------------------------------------------------------------------------
(* try_lock() *)

\* l.80-82
try_lock_enter(t) ==
    /\ At(t, "idle")
    /\ mtx = NoThread
    /\ writerThreadId = t => writersOwnership < MaxDepth
    /\ pc' = [pc EXCEPT ![t] = "try_cs"]
    /\ mtx' = t
    /\ UNCHANGED <<lockState, build, xheld, sheld, owes, ownerShared>>

\* l.84-87: return true
try_lock_reenter(t) ==
    /\ At(t, "try_cs")
    /\ writerThreadId = t
    /\ writersOwnership' = writersOwnership + 1
    /\ pc' = [pc EXCEPT ![t] = "idle"]
    /\ mtx' = NoThread
    /\ TookExclusive(t)
    /\ UNCHANGED <<waitingWriters, writerThreadId, readersOwnership, build, sheld, owes, ownerShared>>

\* try_lock() without the reader check of l.89.
TryLockFree_no_reader_check == writerThreadId = NoThread

\* The condition of l.89 with a compare-and-swap that does not fail spuriously.
TryLockFree == ReaderSize = 0 /\ writerThreadId = NoThread

\* l.89-90: no readers and the compare-and-swap succeeds: return true
try_lock_cas_ok(t) ==
    /\ At(t, "try_cs")
    /\ writerThreadId # t
    /\ TryLockFree
    /\ writerThreadId' = t
    /\ pc' = [pc EXCEPT ![t] = "idle"]
    /\ mtx' = NoThread
    /\ TookExclusive(t)
    /\ UNCHANGED <<waitingWriters, writersOwnership, readersOwnership, build, sheld, owes, ownerShared>>

\* try_lock() that leaves a waiting-writer announcement behind when it fails.
try_lock_fail_announces(t) ==
    /\ At(t, "try_cs")
    /\ writerThreadId # t
    /\ waitingWriters' = waitingWriters + 1
    /\ pc' = [pc EXCEPT ![t] = "idle"]
    /\ mtx' = NoThread
    /\ UNCHANGED <<writerThreadId, writersOwnership, readersOwnership, build, xheld, sheld, owes, ownerShared>>

\* l.89, 92: readers exist, the slot is taken, or the weak compare-and-swap
\* fails spuriously: return false
try_lock_fail(t) ==
    /\ At(t, "try_cs")
    /\ writerThreadId # t
    /\ pc' = [pc EXCEPT ![t] = "idle"]
    /\ mtx' = NoThread
    /\ UNCHANGED <<lockState, build, xheld, sheld, owes, ownerShared>>

-----------------------------------------------------------------------------
(* lock_shared() *)

\* l.122-125.  The call begins: remember the writers that have announced.
lock_shared_enter(t) ==
    /\ At(t, "idle")
    /\ mtx = NoThread
    /\ writerThreadId = t => writersOwnership < MaxDepth
    /\ ReaderCount(t) # 0 => readersOwnership[t] < MaxDepth
    /\ pc' = [pc EXCEPT ![t] = "ls_cs"]
    /\ mtx' = t
    /\ owes' = [owes EXCEPT ![t] = {w \in Threads : pc[w] \in AnnouncedPcs}]
    /\ UNCHANGED <<lockState, build, xheld, sheld, ownerShared>>

\* lock_shared() without the writer branch of l.128: the owner becomes a reader.
lock_shared_writer_as_reader(t) ==
    /\ At(t, "ls_cs")
    /\ writerThreadId = t
    /\ readersOwnership' = ReaderInsert(t)
    /\ pc' = [pc EXCEPT ![t] = "idle"]
    /\ mtx' = NoThread
    /\ sheld' = [sheld EXCEPT ![t] = @ + 1]
    /\ owes' = [owes EXCEPT ![t] = {}]
    /\ UNCHANGED <<waitingWriters, writerThreadId, writersOwnership, build, xheld, ownerShared>>

\* l.128-131: as writer
lock_shared_writer(t) ==
    /\ At(t, "ls_cs")
    /\ writerThreadId = t
    /\ writersOwnership' = writersOwnership + 1
    /\ pc' = [pc EXCEPT ![t] = "idle"]
    /\ mtx' = NoThread
    /\ TookExclusive(t)
    /\ owes' = [owes EXCEPT ![t] = {}]
    /\ ownerShared' = ownerShared + 1
    /\ UNCHANGED <<waitingWriters, writerThreadId, readersOwnership, build, sheld>>

\* lock_shared() without the reader branch of l.134: a shared holder queues
\* up with the new readers.
lock_shared_reader_queues(t) ==
    /\ At(t, "ls_cs")
    /\ writerThreadId # t
    /\ ReaderCount(t) # 0
    /\ pc' = [pc EXCEPT ![t] = "ls_loop"]
    /\ mtx' = NoThread
    /\ UNCHANGED <<lockState, build, xheld, sheld, owes, ownerShared>>

\* l.134-137: as an additional reader
lock_shared_reader(t) ==
    /\ At(t, "ls_cs")
    /\ writerThreadId # t
    /\ ReaderCount(t) # 0
    /\ readersOwnership' = [readersOwnership EXCEPT ![t] = @ + 1]
    /\ pc' = [pc EXCEPT ![t] = "idle"]
    /\ mtx' = NoThread
    /\ sheld' = [sheld EXCEPT ![t] = @ + 1]
    /\ owes' = [owes EXCEPT ![t] = {}]
    /\ UNCHANGED <<waitingWriters, writerThreadId, writersOwnership, build, xheld, ownerShared>>

\* l.138: neither fast path applies
lock_shared_miss(t) ==
    /\ At(t, "ls_cs")
    /\ writerThreadId # t
    /\ ReaderCount(t) = 0
    /\ pc' = [pc EXCEPT ![t] = "ls_loop"]
    /\ mtx' = NoThread
    /\ UNCHANGED <<lockState, build, xheld, sheld, owes, ownerShared>>

\* l.140-142
lock_shared_loop_enter(t) ==
    /\ At(t, "ls_loop")
    /\ mtx = NoThread
    /\ pc' = [pc EXCEPT ![t] = "ls_loop_cs"]
    /\ mtx' = t
    /\ UNCHANGED <<lockState, build, xheld, sheld, owes, ownerShared>>

\* l.143 without the test of the writer slot.
wait_longer_count_only == waitingWriters # 0
\* l.143 without the test of the waiting-writer count.
wait_longer_slot_only == writerThreadId # NoThread
\* l.143 as a test for a writer that owns: slot claimed and no reader left.
wait_longer_owner_only == writerThreadId # NoThread /\ ReaderSize = 0

\* l.143: bool wait_longer
wait_longer == waitingWriters # 0 \/ writerThreadId # NoThread

\* The loop of lock_shared() without the test of l.145: the reader is added at once.
lock_shared_admit_untested(t) ==
    /\ At(t, "ls_loop_cs")
    /\ readersOwnership' = ReaderInsert(t)
    /\ pc' = [pc EXCEPT ![t] = "idle"]
    /\ mtx' = NoThread
    /\ sheld' = [sheld EXCEPT ![t] = @ + 1]
    /\ owes' = [owes EXCEPT ![t] = {}]
    /\ UNCHANGED <<waitingWriters, writerThreadId, writersOwnership, build, xheld, ownerShared>>

\* l.145-148: add new reader ownership
lock_shared_admit(t) ==
    /\ At(t, "ls_loop_cs")
    /\ ~wait_longer
    /\ readersOwnership' = ReaderInsert(t)
    /\ pc' = [pc EXCEPT ![t] = "idle"]
    /\ mtx' = NoThread
    /\ sheld' = [sheld EXCEPT ![t] = @ + 1]
    /\ owes' = [owes EXCEPT ![t] = {}]
    /\ UNCHANGED <<waitingWriters, writerThreadId, writersOwnership, build, xheld, ownerShared>>

\* The loop of lock_shared() with the yield of l.151 inside the scope of the
\* lock_guard of l.142.
lock_shared_wait_holding(t) ==
    /\ At(t, "ls_loop_cs")
    /\ wait_longer
    /\ pc' = [pc EXCEPT ![t] = "ls_loop"]
    /\ UNCHANGED <<mtx, lockState, build, xheld, sheld, owes, ownerShared>>

\* l.145, 149-151: wait longer; leave the critical section and yield; the next
\* round of the loop follows.
lock_shared_wait(t) ==
    /\ At(t, "ls_loop_cs")
    /\ wait_longer
    /\ pc' = [pc EXCEPT ![t] = "ls_loop"]
    /\ mtx' = NoThread
    /\ UNCHANGED <<lockState, build, xheld, sheld, owes, ownerShared>>

-----------------------------------------------------------------------------
(* unlock() *)

\* l.166-168.  Called by the thread in the writer slot (the assert of l.166)
\* that has a level left to give back.
unlock_enter(t) ==
    /\ At(t, "idle")
    /\ mtx = NoThread
    /\ writerThreadId = t
    /\ writersOwnership # 0
    /\ pc' = [pc EXCEPT ![t] = "unlock_cs"]
    /\ mtx' = t
    /\ UNCHANGED <<lockState, build, xheld, sheld, owes, ownerShared>>

\* l.171-174
unlock_dec(t) ==
    /\ At(t, "unlock_cs")
    /\ writersOwnership # 1
    /\ writersOwnership' = writersOwnership - 1
    /\ pc' = [pc EXCEPT ![t] = "idle"]
    /\ mtx' = NoThread
    /\ GaveExclusive(t)
    /\ ownerShared' = IF ownerShared > writersOwnership - 1 THEN writersOwnership - 1 ELSE ownerShared
    /\ UNCHANGED <<waitingWriters, writerThreadId, readersOwnership, build, sheld>>

\* unlock() that gives the last level back by the decrement of l.172 as well.
unlock_reset_decrements(t) ==
    /\ At(t, "unlock_cs")
    /\ writersOwnership = 1
    /\ writerThreadId' = NoThread
    /\ writersOwnership' = writersOwnership - 1
    /\ pc' = [pc EXCEPT ![t] = "idle"]
    /\ mtx' = NoThread
    /\ GaveExclusive(t)
    /\ ownerShared' = 0
    /\ UNCHANGED <<waitingWriters, readersOwnership, build, sheld>>

\* l.171, 178: reset the thread's ownership
unlock_reset(t) ==
    /\ At(t, "unlock_cs")
    /\ writersOwnership = 1
    /\ writerThreadId' = NoThread
    /\ pc' = [pc EXCEPT ![t] = "idle"]
    /\ mtx' = NoThread
    /\ GaveExclusive(t)
    /\ ownerShared' = 0
    /\ UNCHANGED <<waitingWriters, writersOwnership, readersOwnership, build, sheld>>

-----------------------------------------------------------------------------
(* unlock_shared() *)

\* l.198-200.  Called by a thread in the writer slot that has a level left to
\* give back, or by a thread with a reader entry (the assert of l.208).
unlock_shared_enter(t) ==
    /\ At(t, "idle")
    /\ mtx = NoThread
    /\ \/ writerThreadId = t /\ writersOwnership # 0
       \/ writerThreadId # t /\ ReaderCount(t) = 1
    /\ pc' = [pc EXCEPT ![t] = "us_cs"]
    /\ mtx' = t
    /\ UNCHANGED <<lockState, build, xheld, sheld, owes, ownerShared>>

\* l.203-206: the caller is the writer
unlock_shared_writer(t) ==
    /\ At(t, "us_cs")
    /\ writerThreadId = t
    /\ writersOwnership' = writersOwnership - 1
    /\ pc' = [pc EXCEPT ![t] = "idle"]
    /\ mtx' = NoThread
    /\ GaveExclusive(t)
    /\ ownerShared' = IF ownerShared > 0 THEN ownerShared - 1 ELSE 0
    /\ UNCHANGED <<waitingWriters, writerThreadId, readersOwnership, build, sheld>>

\* unlock_shared() without the level test of l.211: the entry always goes.
unlock_shared_dec_erases(t) ==
    /\ At(t, "us_cs")
    /\ writerThreadId # t
    /\ readersOwnership[t] # 1
    /\ readersOwnership' = ReaderErase(t)
    /\ pc' = [pc EXCEPT ![t] = "idle"]
    /\ mtx' = NoThread
    /\ sheld' = [sheld EXCEPT ![t] = @ - 1]
    /\ UNCHANGED <<waitingWriters, writerThreadId, writersOwnership, build, xheld, owes, ownerShared>>

\* l.211-214
unlock_shared_dec(t) ==
    /\ At(t, "us_cs")
    /\ writerThreadId # t
    /\ readersOwnership[t] # 1
    /\ readersOwnership' = [readersOwnership EXCEPT ![t] = @ - 1]
    /\ pc' = [pc EXCEPT ![t] = "idle"]
    /\ mtx' = NoThread
    /\ sheld' = [sheld EXCEPT ![t] = @ - 1]
    /\ UNCHANGED <<waitingWriters, writerThreadId, writersOwnership, build, xheld, owes, ownerShared>>

\* l.211, 217: remove the reader's ownership
unlock_shared_erase(t) ==
    /\ At(t, "us_cs")
    /\ writerThreadId # t
    /\ readersOwnership[t] = 1
    /\ readersOwnership' = ReaderErase(t)
    /\ pc' = [pc EXCEPT ![t] = "idle"]
    /\ mtx' = NoThread
    /\ sheld' = [sheld EXCEPT ![t] = @ - 1]
    /\ UNCHANGED <<waitingWriters, writerThreadId, writersOwnership, build, xheld, owes, ownerShared>>

-----------------------------------------------------------------------------

lock(t) ==
    \/ lock_enter(t) \/ lock_reenter(t) \/ lock_announce(t) \/ lock_assert_fail(t)
    \/ lock_cas_ok(t) \/ lock_cas_fail(t) \/ lock_yield(t)
    \/ lock_drain_enter(t) \/ lock_drain_done(t) \/ lock_drain_wait(t)

try_lock(t) ==
    \/ try_lock_enter(t) \/ try_lock_reenter(t) \/ try_lock_cas_ok(t) \/ try_lock_fail(t)

lock_shared(t) ==
    \/ lock_shared_enter(t) \/ lock_shared_writer(t) \/ lock_shared_reader(t)
    \/ lock_shared_miss(t) \/ lock_shared_loop_enter(t) \/ lock_shared_admit(t)
    \/ lock_shared_wait(t)

unlock(t) ==
    \/ unlock_enter(t) \/ unlock_dec(t) \/ unlock_reset(t)

unlock_shared(t) ==
    \/ unlock_shared_enter(t) \/ unlock_shared_writer(t)
    \/ unlock_shared_dec(t) \/ unlock_shared_erase(t)

Next ==
    \E t \in Threads :
        lock(t) \/ try_lock(t) \/ lock_shared(t) \/ unlock(t) \/ unlock_shared(t)

Spec == Init /\ [][Next]_vars


\* What the scheduler and the hardware give a thread inside a call: a thread
\* that can step does step; a thread that keeps retrying the weak
\* compare-and-swap on an empty slot, or keeps asking for _mtx, gets it.
\* Nothing obliges an idle thread to start a call.
InsideCall(t) ==
    \/ lock_reenter(t) \/ lock_announce(t) \/ lock_assert_fail(t)
    \/ lock_cas_ok(t) \/ lock_cas_fail(t) \/ lock_yield(t)
    \/ lock_drain_done(t) \/ lock_drain_wait(t)
    \/ try_lock_reenter(t) \/ try_lock_cas_ok(t) \/ try_lock_fail(t)
    \/ lock_shared_writer(t) \/ lock_shared_reader(t) \/ lock_shared_miss(t)
    \/ lock_shared_admit(t) \/ lock_shared_wait(t)
    \/ unlock_dec(t) \/ unlock_reset(t)
    \/ unlock_shared_writer(t) \/ unlock_shared_dec(t) \/ unlock_shared_erase(t)

Fairness ==
    \A t \in Threads :
        /\ WF_vars(InsideCall(t))
        /\ SF_vars(lock_cas_ok(t))
        /\ SF_vars(lock_drain_enter(t))
        /\ SF_vars(lock_shared_loop_enter(t))

FairSpec == Spec /\ Fairness

\* One writer against a stream of readers: one thread takes and gives back
\* the lock with lock() and unlock(); the others call try_lock(),
\* lock_shared(), unlock() and unlock_shared().
Writer == CHOOSE t \in Threads : \A u \in Threads : t <= u

WriterVsReadersNext ==
    \/ lock_enter(Writer) \/ lock_reenter(Writer) \/ lock_announce(Writer)
    \/ lock_cas_ok(Writer) \/ lock_cas_fail(Writer) \/ lock_yield(Writer)
    \/ lock_drain_enter(Writer) \/ lock_drain_done(Writer)
    \/ lock_drain_wait(Writer)
    \/ unlock(Writer)
    \/ \E t \in Threads \ {Writer} :
        try_lock(t) \/ lock_shared(t) \/ unlock(t) \/ unlock_shared(t)

\* Every running call keeps taking steps; the writer's weak compare-and-swap
\* does not fail forever on a slot that is empty again and again, and the
\* writer gets _mtx when it is free again and again.  Nothing more is assumed
\* of the other threads.
WriterFairness ==
    /\ \A t \in Threads : WF_vars(InsideCall(t))
    /\ SF_vars(lock_cas_ok(Writer))
    /\ SF_vars(lock_drain_enter(Writer))

WriterVsReadersSpec == Init /\ [][WriterVsReadersNext]_vars /\ WriterFairness

\* Competing writers: threads that hold no ownership call lock() on the
\* freshly constructed lock, and no other operation is called.
CompetingWritersNext ==
    \E t \in Threads :
        \/ (xheld[t] = 0 /\ lock_enter(t))
        \/ lock_announce(t)
        \/ lock_cas_ok(t) \/ lock_cas_fail(t) \/ lock_yield(t)
        \/ lock_drain_enter(t) \/ lock_drain_done(t)

CompetingWritersSpec == Init /\ [][CompetingWritersNext]_vars /\ Fairness

\* Levels of thread t that its lock_shared() calls took and that are still out.
SharedOut(t) == sheld[t] + (IF writerThreadId = t THEN ownerShared ELSE 0)
\* Levels of thread t that its lock() and try_lock() calls took and that are still out.
ExclusiveOut(t) == xheld[t] - (IF writerThreadId = t THEN ownerShared ELSE 0)

\* Thread t starts the release of a level through the entry point that
\* matches the call that took it.
MatchingRelease(t) ==
    \/ (ExclusiveOut(t) >= 1 /\ unlock_enter(t))
    \/ (SharedOut(t) >= 1 /\ unlock_shared_enter(t))

\* Callers that keep to the rules: no lock() by a thread that holds shared
\* ownership, and every release through the matching entry point.
DisciplinedNext ==
    \E t \in Threads :
        \/ (SharedOut(t) = 0 /\ lock_enter(t))
        \/ lock_reenter(t) \/ lock_announce(t)
        \/ lock_cas_ok(t) \/ lock_cas_fail(t) \/ lock_yield(t)
        \/ lock_drain_enter(t) \/ lock_drain_done(t) \/ lock_drain_wait(t)
        \/ try_lock(t)
        \/ lock_shared(t)
        \/ MatchingRelease(t)
        \/ unlock_dec(t) \/ unlock_reset(t)
        \/ unlock_shared_writer(t) \/ unlock_shared_dec(t) \/ unlock_shared_erase(t)

\* Fair scheduling, and every thread that holds a level goes on to release it.
DisciplinedSpec ==
    /\ Init /\ [][DisciplinedNext]_vars
    /\ Fairness
    /\ \A t \in Threads : SF_vars(MatchingRelease(t))

-----------------------------------------------------------------------------
(* Vocabulary of the properties *)

\* writer slot empty, reader set empty, waiting-writer count zero
UNLOCKED ==
    /\ writerThreadId = NoThread
    /\ ReaderSize = 0
    /\ waitingWriters = 0

\* Thread t holds exclusive ownership: a lock() of t has returned or a
\* try_lock() of t has returned true, and t has not given every level back.
HoldsExclusive(t) == xheld[t] >= 1

\* Thread t returns from the named call in this step.
Returns(t, from) == pc[t] \in from /\ pc'[t] = "idle"

\* A call of t returns in this step having taken exclusive ownership
\* (lock() returns, try_lock() returns true).
AcquiresExclusive(t) == xheld'[t] > xheld[t]

-----------------------------------------------------------------------------
\* C1. Mutual exclusion: at most one thread holds exclusive ownership, and
\* while a thread holds it no other thread has an entry in the reader set.
C1_MutualExclusion ==
    \A t \in Threads : HoldsExclusive(t) =>
        \A u \in Threads \ {t} :
            /\ ~HoldsExclusive(u)
            /\ ReaderCount(u) = 0

\* An exclusive owner exists while a second writer spins on the slot and a
\* reader spins in lock_shared().
C1_Witness ==
    \E t, u, r \in Threads :
        /\ HoldsExclusive(t)
        /\ pc[u] = "lock_yield"
        /\ pc[r] = "ls_loop"

\* C2. Exclusive reentrancy: while a thread has taken more exclusive levels
\* than it has given back (N lock() calls, k < N unlock() calls) the writer
\* slot holds its identity at depth N - k and no other thread's lock()
\* returns or try_lock() returns true; the unlock() that gives the last level
\* back empties the slot.
C2_ExclusiveReentrancy ==
    /\ [](\A t \in Threads : HoldsExclusive(t) =>
            writerThreadId = t /\ writersOwnership = xheld[t])
    /\ [][\A t \in Threads :
            /\ HoldsExclusive(t) =>
                 \A u \in Threads \ {t} : ~AcquiresExclusive(u)
            /\ Returns(t, {"unlock_cs"}) =>
                 IF xheld[t] = 1 THEN writerThreadId' = NoThread
                                 ELSE writerThreadId' = t /\ HoldsExclusive(t)']_vars

\* A thread two levels deep is inside its first unlock() while another
\* thread's lock() spins on the slot.
C2_Witness ==
    \E t, u \in Threads :
        /\ xheld[t] = 2
        /\ pc[t] = "unlock_cs"
        /\ pc[u] = "lock_yield"

\* C3. Shared reentrancy: while a thread has taken more shared levels than it
\* has given back (N lock_shared() calls as a reader, k < N unlock_shared()
\* calls) its reader entry is present at depth N - k and no other thread
\* holds exclusive ownership; once the last level is given back the entry is
\* gone.
C3_SharedReentrancy ==
    \A t \in Threads :
        IF sheld[t] >= 1
        THEN /\ ReaderCount(t) = 1
             /\ readersOwnership[t] = sheld[t]
             /\ \A u \in Threads \ {t} : ~HoldsExclusive(u)
        ELSE ReaderCount(t) = 0

\* A reader two levels deep is inside its first unlock_shared() while a
\* writer that claimed the slot waits for the readers to drain.
C3_Witness ==
    \E t, u \in Threads :
        /\ sheld[t] = 2
        /\ pc[t] = "us_cs"
        /\ writerThreadId = u
        /\ pc[u] = "lock_drain"

\* C4 as stated. Writer preference: once a writer has announced inside
\* lock(), no lock_shared() call that starts afterwards returns before that
\* writer has acquired and fully released.
C4_AsStated ==
    [][\A r \in Threads :
        Returns(r, {"ls_cs", "ls_loop_cs"}) => owes[r] = {}]_vars

\* C4, amended. The same for every lock_shared() call of a thread that
\* neither occupies the writer slot nor has a reader entry (a new reader).
C4_WriterPreference ==
    [][\A r \in Threads :
        /\ Returns(r, {"ls_cs", "ls_loop_cs"})
        /\ writerThreadId # r
        /\ ReaderCount(r) = 0
        => owes[r] = {}]_vars

\* A new reader still spins although the writer it started after has
\* already acquired.
C4_Witness ==
    \E r, w \in Threads :
        /\ pc[r] = "ls_loop"
        /\ w \in owes[r]
        /\ HoldsExclusive(w)
        /\ pc[w] = "idle"

\* C5. try_lock() ends in its one critical section, and it returns true for
\* a thread that is not the owner only if the reader set is empty and no
\* thread is in the writer slot.
C5_TryLock ==
    [][\A t \in Threads :
        pc[t] = "try_cs" /\ pc'[t] # "try_cs" =>
            /\ pc'[t] = "idle"
            /\ AcquiresExclusive(t) /\ writerThreadId # t =>
                 ReaderSize = 0 /\ writerThreadId = NoThread]_vars

\* try_lock() runs while another thread has claimed the slot and waits for
\* the readers to drain.
C5_Witness ==
    \E t, u \in Threads :
        /\ pc[t] = "try_cs"
        /\ writerThreadId = u
        /\ pc[u] = "lock_drain"
        /\ ReaderSize > 0

\* C6. Round trip: when every call has returned and every level taken has
\* been given back by one release, the lock is UNLOCKED.
C6_RoundTrip ==
    (\A t \in Threads : pc[t] = "idle" /\ xheld[t] = 0 /\ sheld[t] = 0) => UNLOCKED

\* C7. unlock_shared() unlocks at level 1 and otherwise lowers the level by
\* one, for a reader (entry removed at depth 1) and for the thread in the
\* writer slot (slot cleared at depth 1, as unlock() does).
C7_UnlockShared ==
    [][\A t \in Threads :
        Returns(t, {"us_cs"}) =>
            IF writerThreadId = t
            THEN IF writersOwnership = 1
                 THEN writerThreadId' = NoThread
                 ELSE writerThreadId' = t /\ writersOwnership' = writersOwnership - 1
            ELSE IF readersOwnership[t] = 1
                 THEN t \notin DOMAIN readersOwnership'
                 ELSE /\ t \in DOMAIN readersOwnership'
                      /\ readersOwnership'[t] = readersOwnership[t] - 1]_vars

\* Exactly one thread, W, is inside lock() with its intent announced.
OnlyWriterWaiting(W) ==
    /\ pc[W] \in AnnouncedPcs
    /\ \A u \in Threads \ {W} : pc[u] \notin LockPcs

\* C8 as stated. When the writer alone is inside lock() and every thread
\* that holds shared ownership at that moment eventually gives all its levels
\* back, the writer's lock() eventually returns, whatever lock_shared() calls
\* the other threads keep issuing.
C8_AsStated ==
    [](OnlyWriterWaiting(Writer)
        => ((\A r \in Threads : <>(ReaderCount(r) = 0)) => <>(pc[Writer] = "idle")))

\* C8, amended. The same, provided that from that moment on no other thread
\* is in the writer slot.
C8_WriterNotStarved ==
    [](OnlyWriterWaiting(Writer)
        => (([](writerThreadId \in {NoThread, Writer})
               /\ \A r \in Threads : <>(ReaderCount(r) = 0))
              => <>(pc[Writer] = "idle")))

\* W has claimed the slot and waits for a reader to drain while a new reader
\* spins in lock_shared().
C8_Witness ==
    \E W, r, n \in Threads :
        /\ OnlyWriterWaiting(W)
        /\ writerThreadId = W
        /\ pc[W] = "lock_drain"
        /\ ReaderCount(r) = 1
        /\ pc[n] = "ls_loop"

\* C9. Upgrade is impossible: a lock() call of a thread that holds shared
\* ownership never returns.
C9_NoUpgrade ==
    [][\A t \in Threads :
        pc[t] \in LockPcs /\ sheld[t] >= 1 => pc'[t] # "idle"]_vars

\* A shared holder inside lock() has claimed the slot and spins on the drain
\* check that its own entry keeps failing.
C9_Witness ==
    \E t \in Threads :
        /\ sheld[t] >= 1
        /\ writerThreadId = t
        /\ pc[t] = "lock_drain"

\* C10. Reentry by the exclusive owner: lock(), try_lock() or lock_shared()
\* called by the thread in the writer slot returns from its first critical
\* section (try_lock() with true) with the writer depth raised by one and the
\* slot, the reader set and the waiting-writer count unchanged.
C10_OwnerReentry ==
    [][\A t \in Threads :
        /\ pc[t] \in {"lock_cs", "try_cs", "ls_cs"}
        /\ writerThreadId = t
        /\ pc'[t] # pc[t]
        => /\ pc'[t] = "idle"
           /\ AcquiresExclusive(t)
           /\ writersOwnership' = writersOwnership + 1
           /\ UNCHANGED <<writerThreadId, readersOwnership, waitingWriters>>]_vars

\* The owner is two levels deep while another writer and a new reader wait.
C10_Witness ==
    \E t, u, r \in Threads :
        /\ pc[t] = "idle"
        /\ writerThreadId = t
        /\ writersOwnership = 2
        /\ xheld[t] = 2
        /\ pc[u] = "lock_yield"
        /\ pc[r] = "ls_loop"
        /\ waitingWriters > 0

\* C11. Reentry by a shared holder never waits: a lock_shared() call of a
\* thread that has a reader entry leaves its first critical section by
\* returning, with that entry's depth raised by one and the rest of the lock
\* state unchanged, whatever the waiting-writer count and the writer slot are.
C11_ReaderReentry ==
    [][\A t \in Threads :
        /\ pc[t] = "ls_cs"
        /\ ReaderCount(t) # 0
        /\ pc'[t] # pc[t]
        => /\ pc'[t] = "idle"
           /\ mtx' = NoThread
           /\ readersOwnership' = [readersOwnership EXCEPT ![t] = @ + 1]
           /\ sheld'[t] = sheld[t] + 1
           /\ UNCHANGED <<waitingWriters, writerThreadId, writersOwnership>>]_vars

\* A shared holder is inside the first critical section of lock_shared()
\* while a writer that has claimed the slot waits for the readers to drain.
C11_Witness ==
    \E t, u \in Threads :
        /\ pc[t] = "ls_cs"
        /\ ReaderCount(t) = 1
        /\ waitingWriters > 0
        /\ writerThreadId = u
        /\ u # t
        /\ pc[u] = "lock_drain"

\* The threads that have called lock().
Callers == {t \in Threads : pc[t] # "idle" \/ xheld[t] # 0}

\* C12. Competing writers: when threads holding no ownership call lock()
\* concurrently on an UNLOCKED lock and nobody calls unlock(), exactly one
\* call returns: one eventually does, and once one has, the slot holds the
\* winner's identity at depth 1, every other caller stays inside lock()
\* before the drain loop, and the waiting-writer count is the number of
\* callers minus one once all of them have announced.
C12_CompetingWriters ==
    /\ [](\A w \in Threads : HoldsExclusive(w) =>
            /\ pc[w] = "idle"
            /\ writerThreadId = w
            /\ writersOwnership = 1
            /\ \A u \in Callers \ {w} : pc[u] \in {"lock_cs", "lock_cas", "lock_yield"}
            /\ (\A u \in Callers \ {w} : pc[u] \in AnnouncedPcs)
                  => waitingWriters = Cardinality(Callers) - 1)
    /\ [][\A w \in Threads : HoldsExclusive(w) => HoldsExclusive(w)']_vars
    /\ (Cardinality(Callers) >= 2) ~> (\E w \in Threads : HoldsExclusive(w))

\* One caller has returned while every other thread has announced and
\* retries the compare-and-swap.
C12_Witness ==
    \E w \in Threads :
        /\ HoldsExclusive(w)
        /\ \A u \in Threads \ {w} : pc[u] \in {"lock_cas", "lock_yield"}
        /\ waitingWriters = NumThreads - 1

\* C13. Recursion depths never reach 0 as a stored value: under calls that
\* meet their preconditions the writer depth is at least 1 and every reader
\* entry has depth at least 1.
C13_DepthsPositive ==
    /\ writersOwnership >= 1
    /\ \A t \in DOMAIN readersOwnership : readersOwnership[t] >= 1

\* C14. No new reader is admitted past a writer: a step taken while the
\* waiting-writer count is not zero or the writer slot is not empty adds no
\* thread to the reader set (entries may change depth or go).
C14_NoNewReader ==
    [][waitingWriters # 0 \/ writerThreadId # NoThread
        => DOMAIN readersOwnership' \subseteq DOMAIN readersOwnership]_vars

\* A new reader is inside the critical section of the lock_shared() loop
\* while a writer has announced, the slot is still empty and a reader holds.
C14_Witness ==
    \E n, r \in Threads :
        /\ pc[n] = "ls_loop_cs"
        /\ ReaderCount(n) = 0
        /\ waitingWriters > 0
        /\ writerThreadId = NoThread
        /\ ReaderCount(r) = 1

\* The threads inside lock() past the announcement and before its return.
Announced == {t \in Threads : pc[t] \in AnnouncedPcs}

\* C15. Waiting-writer accounting: the waiting-writer count is the number of
\* threads inside lock() past the announcement and before its return; each
\* lock() call that misses the reentrant fast path raises it by one, once,
\* when it announces, and lowers it by one, once, when it returns, and no
\* other step changes it.
C15_WaitingWriters ==
    /\ [](waitingWriters = Cardinality(Announced))
    /\ [][/\ \A t \in Threads :
               /\ pc[t] = "lock_cs" /\ pc'[t] \in AnnouncedPcs
                    => waitingWriters' = waitingWriters + 1
               /\ pc[t] = "lock_cs" /\ pc'[t] = "idle"
                    => writerThreadId = t /\ waitingWriters' = waitingWriters
               /\ pc[t] \in AnnouncedPcs /\ pc'[t] = "idle"
                    => waitingWriters' = waitingWriters - 1
          /\ waitingWriters' # waitingWriters
               => \E t \in Threads :
                    \/ pc[t] = "lock_cs" /\ pc'[t] \in AnnouncedPcs
                    \/ pc[t] \in AnnouncedPcs /\ pc'[t] = "idle"]_vars

\* Two writers are counted: one is inside its drain check, the other retries
\* the compare-and-swap, while the third thread holds shared ownership.
C15_Witness ==
    \E t, u, r \in Threads :
        /\ pc[t] = "lock_drain_cs"
        /\ pc[u] = "lock_yield"
        /\ waitingWriters = 2
        /\ sheld[r] >= 1

\* No thread has called lock() while it had a reader entry: such a call never
\* returns, so its thread is inside lock() or has been stopped by the assert.
NoUpgradeCalled ==
    \A t \in Threads : pc[t] \in LockPcs \cup {"aborted"} => ReaderCount(t) = 0

\* C16. Writer slot and reader set are disjoint: unless a thread has called
\* lock() while holding shared ownership, the thread in the writer slot has
\* no reader entry; lock_shared() by the slot's occupant raises the writer
\* depth and leaves the reader set alone.
C16_SlotReaderDisjoint ==
    /\ [](NoUpgradeCalled => writerThreadId \notin DOMAIN readersOwnership)
    /\ [][\A t \in Threads :
            pc[t] = "ls_cs" /\ writerThreadId = t /\ pc'[t] # pc[t]
            => /\ writersOwnership' = writersOwnership + 1
               /\ readersOwnership' = readersOwnership]_vars

\* The slot's occupant is inside lock_shared() at depth 1 while another
\* thread waits in the lock_shared() loop to become a reader.
C16_Witness ==
    \E t, r \in Threads :
        /\ NoUpgradeCalled
        /\ pc[t] = "ls_cs"
        /\ writerThreadId = t
        /\ xheld[t] = 1
        /\ pc[r] = "ls_loop"

\* C17. Fresh acquisitions start at depth 1: the stored writer depth is 1
\* whenever the writer slot is empty, a lock() that returns from its slow
\* path and a try_lock() that takes the empty slot leave the caller in the
\* slot at depth 1, and an unlock() at that depth empties the slot.
C17_FreshDepthOne ==
    /\ [](writerThreadId = NoThread => writersOwnership = 1)
    /\ [][\A t \in Threads :
            /\ Returns(t, AnnouncedPcs)
                 => writerThreadId' = t /\ writersOwnership' = 1
            /\ Returns(t, {"try_cs"}) /\ AcquiresExclusive(t) /\ writerThreadId # t
                 => writerThreadId' = t /\ writersOwnership' = 1
            /\ Returns(t, {"unlock_cs"}) /\ writersOwnership = 1
                 => writerThreadId' = NoThread /\ writersOwnership' = 1]_vars

\* The owner, one level deep, is inside the unlock() that gives that level
\* back while another writer retries the compare-and-swap.
C17_Witness ==
    \E t, u \in Threads :
        /\ pc[t] = "unlock_cs"
        /\ writerThreadId = t
        /\ writersOwnership = 1
        /\ xheld[t] = 1
        /\ pc[u] = "lock_cas"

\* C18. try_lock() stays out of the bookkeeping: no step of a try_lock()
\* call changes the waiting-writer count or the reader set, and a call that
\* returns false leaves the writer slot and the writer depth unchanged as
\* well, so whether a lock_shared() has to wait longer is not changed by it.
C18_TryLockFrame ==
    [][\A t \in Threads :
        /\ pc'[t] # pc[t] /\ "try_cs" \in {pc[t], pc'[t]}
             => UNCHANGED <<waitingWriters, readersOwnership>>
        /\ Returns(t, {"try_cs"}) /\ ~AcquiresExclusive(t)
             => UNCHANGED lockState /\ wait_longer' = wait_longer]_vars

\* A thread that is not the owner is inside try_lock() while a writer has
\* announced, the slot is still empty and a new reader waits in the
\* lock_shared() loop.
C18_Witness ==
    \E t, u, r \in Threads :
        /\ pc[t] = "try_cs"
        /\ writerThreadId = NoThread
        /\ pc[u] \in {"lock_cas", "lock_yield"}
        /\ waitingWriters > 0
        /\ pc[r] = "ls_loop"

\* No thread starts a lock(), try_lock() or lock_shared() call in this step.
NoNewRequest ==
    \A t \in Threads : ~(pc[t] = "idle" /\ pc'[t] \in {"lock_cs", "try_cs", "ls_cs"})

\* Every call has returned and the lock is UNLOCKED.
Quiescent == UNLOCKED /\ \A t \in Threads : pc[t] = "idle"

\* C19. Quiescence is reached: with callers that keep to the rules and that
\* release what they acquire, once the threads stop issuing new requests
\* every pending call returns and the lock reaches UNLOCKED, for good.
C19_Quiescence == <>[][NoNewRequest]_vars => <>[]Quiescent

\* Positions after a yield of the retry loops: l.75 in the outer loop of
\* lock(), l.72 in its drain loop, l.151 in the loop of lock_shared().
YieldPcs == {"lock_yield", "lock_drain", "ls_loop"}

\* C20. The bookkeeping mutex is never held across a wait: a thread at a
\* yield point of the retry loops, or one that has returned from its call,
\* does not hold _mtx; whoever holds _mtx is inside a critical section, or
\* was inside one when a failed assert() stopped the process.
C20_NoMutexAcrossWait ==
    /\ \A t \in Threads : pc[t] \in YieldPcs \cup {"idle"} => mtx # t
    /\ mtx # NoThread => pc[mtx] \in CsPcs \cup {"aborted"}

\* A reader is inside the critical section of unlock_shared() while a writer
\* that claimed the slot is in its drain loop and a new reader is in the loop
\* of lock_shared().
C20_Witness ==
    \E w, n, r \in Threads :
        /\ pc[w] = "lock_drain"
        /\ writerThreadId = w
        /\ pc[n] = "ls_loop"
        /\ pc[r] = "us_cs"
        /\ mtx = r

====
